---------------------------- MODULE Spec2Model ----------------------------
(***************************************************************************)
(* A model of takiyasha/utils.py: the magic-byte registries and sniffers,  *)
(* the file-name classifier, the file-object validator and the byte-wise   *)
(* XOR primitive.                                                          *)
(*                                                                         *)
(* Byte strings are sequences of integers 0..255; text strings are         *)
(* sequences of one-character strings.  An Optional value is a sequence of *)
(* at most one element: None is <<>>, a returned value x is <<x>>.         *)
(***************************************************************************)
EXTENDS Integers, Sequences, FiniteSets

VARIABLES
  call,     \* the last call of a pure function: its name, argument, outcome
  fileobj,  \* the caller-owned file object handed to raise_while_not_fileobj
  pc,       \* position of raise_while_not_fileobj: idle, read, seek, write, done
  flags,    \* keyword arguments of the running call: readable, seekable, writable
  entry,    \* the file object as it was when the running call was entered
  probes,   \* methods invoked on the file object by the running call, in order
  raised    \* <<>> while no exception was raised, else <<message>>

vars == <<call, fileobj, pc, flags, entry, probes, raised>>

-----------------------------------------------------------------------------
(* Bounds of the checked input sets.                                       *)

MaxSuffixLen == 2
MaxDots == 2
MaxStemLen == 2
MaxTailLen == 1
MaxXorLen == 2
MaxContentLen == 2
MaxPos == 3

-----------------------------------------------------------------------------
(* Python values and built-ins used by the module.                         *)

None == <<>>
Some(x) == <<x>>

SeqsUpTo(S, n) == UNION {[1..k -> S] : k \in 0..n}

Least(S) == CHOOSE i \in S : \A j \in S : i <= j

\* bytes.startswith / str.startswith with a single prefix
\* variant: the data must equal the prefix
StartsWithWhole(data, prefix) == data = prefix
\* variant: only the bytes both have are compared
StartsWithTruncated(data, prefix) ==
  LET n == IF Len(data) < Len(prefix) THEN Len(data) ELSE Len(prefix)
  IN  SubSeq(data, 1, n) = SubSeq(prefix, 1, n)
startswith(data, prefix) ==
  /\ Len(data) >= Len(prefix)
  /\ SubSeq(data, 1, Len(prefix)) = prefix

\* str.removeprefix
\* variant: nothing is removed
removeprefix_all(s, prefix) == s
removeprefix(s, prefix) ==
  IF startswith(s, prefix) THEN SubSeq(s, Len(prefix) + 1, Len(s)) ELSE s

\* {v: k for k, v in m.items()}: for a repeated value the last key wins
InvertMap(m) ==
  [v \in {m[i][2] : i \in 1..Len(m)} |->
     m[CHOOSE i \in 1..Len(m) :
         /\ m[i][2] = v
         /\ \A j \in 1..Len(m) : m[j][2] = v => j <= i][1]]

\* dict.get(key)
DictGet(d, key) == IF key \in DOMAIN d THEN Some(d[key]) ELSE None

-----------------------------------------------------------------------------
(* The registries.  A dict is the sequence of its items in insertion order. *)

AUDIO_FILE_HEADER_FORMAT_MAP ==
  << <<<<102, 76, 97, 67>>, <<"f", "l", "a", "c">>>>,
     <<<<73, 68, 51>>, <<"m", "p", "3">>>>,
     <<<<79, 103, 103, 83>>, <<"o", "g", "g">>>>,
     <<<<102, 116, 121, 112>>, <<"m", "4", "a">>>>,
     <<<<48, 38, 178, 117, 142, 102, 207, 17, 166, 217, 0, 170, 0, 98, 206, 108>>,
       <<"w", "m", "a">>>>,
     <<<<82, 73, 70, 70>>, <<"w", "a", "v">>>>,
     <<<<255, 241>>, <<"a", "a", "c">>>>,
     <<<<70, 82, 77, 56>>, <<"d", "f", "f">>>>,
     <<<<77, 65, 67, 32>>, <<"a", "p", "e">>>> >>

AUDIO_FILE_FORMAT_HEADER_MAP == InvertMap(AUDIO_FILE_HEADER_FORMAT_MAP)

IMAGE_FILE_HEADER_MIME_MAP ==
  << <<<<137, 80, 78, 71, 13, 10, 26, 10>>,
       <<"i", "m", "a", "g", "e", "/", "p", "n", "g">>>>,
     <<<<255, 216, 255>>, <<"i", "m", "a", "g", "e", "/", "j", "p", "e", "g">>>>,
     <<<<66, 77>>, <<"i", "m", "a", "g", "e", "/", "b", "m", "p">>>> >>

IMAGE_FILE_MIME_HEADER_MAP == InvertMap(IMAGE_FILE_HEADER_MIME_MAP)

SUPPORTED_FORMATS_PATTERNS ==
  << << <<"n", "c", "m">>,
        << <<"*", ".", "n", "c", "m">> >> >>,
     << <<"q", "m", "c">>,
        << <<"*", ".", "q", "m", "c", "[", "0", "2", "3", "4", "6", "8", "]">>,
           <<"*", ".", "q", "m", "c", "f", "l", "a", "c">>,
           <<"*", ".", "q", "m", "c", "o", "g", "g">>,
           <<"*", ".", "t", "k", "m">>,
           <<"*", ".", "m", "f", "l", "a", "c">>,
           <<"*", ".", "m", "f", "l", "a", "c", "[", "0", "]">>,
           <<"*", ".", "m", "g", "g">>,
           <<"*", ".", "m", "g", "g", "[", "0", "1", "l", "]">>,
           <<"*", ".", "b", "k", "c", "m", "p", "3">>,
           <<"*", ".", "b", "k", "c", "m", "4", "a">>,
           <<"*", ".", "b", "k", "c", "f", "l", "a", "c">>,
           <<"*", ".", "b", "k", "c", "w", "a", "v">>,
           <<"*", ".", "b", "k", "c", "a", "p", "e">>,
           <<"*", ".", "b", "k", "c", "o", "g", "g">>,
           <<"*", ".", "b", "k", "c", "w", "m", "a">> >> >> >>

-----------------------------------------------------------------------------
(* Sniffers and reverse lookups.                                           *)

\* for header, fmt in m.items(): if data.startswith(header): return fmt
FirstPrefixMatch(m, data) ==
  LET hits == {i \in 1..Len(m) : startswith(data, m[i][1])}
  IN  IF hits = {} THEN None ELSE Some(m[Least(hits)][2])

get_audio_format(data) == FirstPrefixMatch(AUDIO_FILE_HEADER_FORMAT_MAP, data)

get_image_mime(data) == FirstPrefixMatch(IMAGE_FILE_HEADER_MIME_MAP, data)

\* variant: the lookup goes to the image table
get_possible_audio_header_image_map(fmt) ==
  DictGet(IMAGE_FILE_MIME_HEADER_MAP, removeprefix(fmt, <<".">>))
get_possible_audio_header(fmt) ==
  DictGet(AUDIO_FILE_FORMAT_HEADER_MAP, removeprefix(fmt, <<".">>))

get_possible_image_header(fmt) ==
  DictGet(IMAGE_FILE_MIME_HEADER_MAP, removeprefix(fmt, <<".">>))

-----------------------------------------------------------------------------
(* fnmatch.fnmatch(name, pat): both arguments go through os.path.normcase, *)
(* the pattern is translated to a regular expression anchored at both ends *)
(* and the whole name must match it.                                       *)

\* posixpath.normcase returns its argument unchanged
normcase(s) == s

\* fnmatch.translate at a "[": the index of the "]" closing the class that
\* opens at pat[j], or 0 when the "[" is not closed and stands for itself
RECURSIVE SkipToBracket(_, _)
SkipToBracket(pat, k) ==
  IF k > Len(pat) THEN 0
  ELSE IF pat[k] = "]" THEN k
  ELSE SkipToBracket(pat, k + 1)

ClassEnd(pat, j) ==
  LET k1 == IF j + 1 <= Len(pat) /\ pat[j + 1] = "!" THEN j + 2 ELSE j + 1
      k2 == IF k1 <= Len(pat) /\ pat[k1] = "]" THEN k1 + 1 ELSE k1
  IN  SkipToBracket(pat, k2)

\* membership of c in the class pat[j+1 .. k-1]; a leading "!" negates it.
\* The patterns of SUPPORTED_FORMATS_PATTERNS hold no "-" range.
InClass(c, pat, j, k) ==
  LET negated == pat[j + 1] = "!"
      first   == IF negated THEN j + 2 ELSE j + 1
      members == {pat[i] : i \in first..(k - 1)}
  IN  IF negated THEN c \notin members ELSE c \in members

\* name[i..] matches pat[j..] as a whole
RECURSIVE GlobMatch(_, _, _, _)
GlobMatch(name, i, pat, j) ==
  IF j > Len(pat) THEN i > Len(name)
  ELSE IF pat[j] = "*" THEN
         \/ GlobMatch(name, i, pat, j + 1)
         \/ (i <= Len(name) /\ GlobMatch(name, i + 1, pat, j))
  ELSE IF pat[j] = "?" THEN
         i <= Len(name) /\ GlobMatch(name, i + 1, pat, j + 1)
  ELSE IF pat[j] = "[" /\ ClassEnd(pat, j) # 0 THEN
         /\ i <= Len(name)
         /\ InClass(name[i], pat, j, ClassEnd(pat, j))
         /\ GlobMatch(name, i + 1, pat, ClassEnd(pat, j) + 1)
  ELSE   /\ i <= Len(name)
         /\ name[i] = pat[j]
         /\ GlobMatch(name, i + 1, pat, j + 1)

\* re.match without the closing anchor: a prefix of the name matches
fnmatchcase_unanchored(name, pat) ==
  \E n \in 0..Len(name) : GlobMatch(SubSeq(name, 1, n), 1, pat, 1)
fnmatchcase(name, pat) == GlobMatch(name, 1, pat, 1)

fnmatch(name, pat) == fnmatchcase(normcase(name), normcase(pat))

\* for enctype, patterns in SUPPORTED_FORMATS_PATTERNS.items():
\*     for pattern in patterns: if fnmatch(name, pattern): return enctype
get_encryption_format(name) ==
  LET m    == SUPPORTED_FORMATS_PATTERNS
      hits == {i \in 1..Len(m) :
                 \E k \in 1..Len(m[i][2]) : fnmatch(name, m[i][2][k])}
  IN  IF hits = {} THEN None ELSE Some(m[Least(hits)][1])

-----------------------------------------------------------------------------
(* xor_bytestrings.  A call either returns a value or raises.              *)

Return(v) == [outcome |-> "return", ret |-> v]
Raise(type, msg) == [outcome |-> "raise", ret |-> <<type, msg>>]

\* b1 | b2 on two bytes
RECURSIVE BitOr(_, _)
BitOr(a, b) ==
  IF a = 0 /\ b = 0 THEN 0
  ELSE (IF a % 2 = 1 \/ b % 2 = 1 THEN 1 ELSE 0) + 2 * BitOr(a \div 2, b \div 2)

\* b1 ^ b2 on two bytes
RECURSIVE BitXor(_, _)
BitXor(a, b) ==
  IF a = 0 /\ b = 0 THEN 0
  ELSE (IF (a % 2 = 1) # (b % 2 = 1) THEN 1 ELSE 0) + 2 * BitXor(a \div 2, b \div 2)

\* bytes(b1 ^ b2 for b1, b2 in zip(term1, term2)): zip stops at the shorter
ZipXor(term1, term2) ==
  LET n == IF Len(term1) < Len(term2) THEN Len(term1) ELSE Len(term2)
  IN  [i \in 1..n |-> BitXor(term1[i], term2[i])]

xor_bytestrings(term1, term2) ==
  IF Len(term1) # Len(term2)
  THEN Raise("ValueError", "Only byte strings of equal length can be xored")
  ELSE Return(ZipXor(term1, term2))

-----------------------------------------------------------------------------
(* The file object.  Each method is absent, raises when called, or works;  *)
(* read returns bytes (binary mode) or str (text mode).  Calling a method  *)
(* of a closed file raises.  A method call yields its outcome and the file *)
(* object after the call.                                                  *)

hasattr(f, name) == f[name] # "absent"

MethodFails(f, name) == f.closed \/ f[name] = "raises"

Called(f, outcome, ret) == [outcome |-> outcome, ret |-> ret, obj |-> f]

\* fileobj.read(0)
fileobj_read0(f) ==
  IF ~hasattr(f, "read") THEN Called(f, "raise", "AttributeError")
  ELSE IF MethodFails(f, "read") THEN Called(f, "raise", "Exception")
  ELSE Called(f, "return", f.read)

\* fileobj.seek(0, os.SEEK_SET)
fileobj_seek_start(f) ==
  IF ~hasattr(f, "seek") THEN Called(f, "raise", "AttributeError")
  ELSE IF MethodFails(f, "seek") THEN Called(f, "raise", "Exception")
  ELSE Called([f EXCEPT !.pos = 0], "return", "int")

\* fileobj.seek(0, os.SEEK_END)
fileobj_seek_end(f) ==
  IF ~hasattr(f, "seek") THEN Called(f, "raise", "AttributeError")
  ELSE IF MethodFails(f, "seek") THEN Called(f, "raise", "Exception")
  ELSE Called([f EXCEPT !.pos = Len(f.content)], "return", "int")

\* fileobj.write(b"")
fileobj_write_empty(f) ==
  IF ~hasattr(f, "write") THEN Called(f, "raise", "AttributeError")
  ELSE IF MethodFails(f, "write") THEN Called(f, "raise", "Exception")
  ELSE Called(f, "return", "int")

ContentBytes == {0, 255}

FileObjects ==
  [read    : {"absent", "raises", "bytes", "str"},
   seek    : {"absent", "raises", "ok"},
   write   : {"absent", "raises", "ok"},
   closed  : BOOLEAN,
   content : SeqsUpTo(ContentBytes, MaxContentLen),
   pos     : 0..MaxPos]

-----------------------------------------------------------------------------
(* raise_while_not_fileobj(fileobj, *, readable, seekable, writable).      *)

NotValid == "not a valid file object"
CannotRead == "cannot read from file object"
NotBinary == "file object not opened in binary mode"
CannotSeek == "cannot seek in file object"
CannotWrite == "cannot write to file object"

\* except Exception: if not hasattr(fileobj, name): raise ...; raise ...
\* variant: the handler with only its first raise
ExceptMessageAlwaysMissing(f, name, faulty) == NotValid
ExceptMessage(f, name, faulty) == IF ~hasattr(f, name) THEN NotValid ELSE faulty

Enter ==
  /\ pc \in {"idle", "done"}
  /\ \E r \in BOOLEAN, s \in BOOLEAN, w \in BOOLEAN :
       flags' = [readable |-> r, seekable |-> s, writable |-> w]
  /\ pc' = "read"
  /\ entry' = fileobj
  /\ probes' = <<>>
  /\ raised' = None
  /\ UNCHANGED <<call, fileobj>>

\* variant: the read check without its "if readable:"
CheckReadIgnoringFlag ==
  /\ pc = "read"
  /\ LET r == fileobj_read0(fileobj) IN
       /\ probes' = Append(probes, "read")
       /\ fileobj' = r.obj
       /\ IF r.outcome = "raise"
          THEN /\ raised' = Some(ExceptMessage(fileobj, "read", CannotRead))
               /\ pc' = "done"
          ELSE IF r.ret # "bytes"
          THEN /\ raised' = Some(NotBinary)
               /\ pc' = "done"
          ELSE /\ raised' = raised
               /\ pc' = "seek"
  /\ UNCHANGED <<call, flags, entry>>

\* the statement "if readable:" with its body
CheckRead ==
  /\ pc = "read"
  /\ IF flags.readable
     THEN LET r == fileobj_read0(fileobj) IN
            /\ probes' = Append(probes, "read")
            /\ fileobj' = r.obj
            /\ IF r.outcome = "raise"
               THEN /\ raised' = Some(ExceptMessage(fileobj, "read", CannotRead))
                    /\ pc' = "done"
               ELSE IF r.ret # "bytes"
               THEN /\ raised' = Some(NotBinary)
                    /\ pc' = "done"
               ELSE /\ raised' = raised
                    /\ pc' = "seek"
     ELSE /\ pc' = "seek"
          /\ UNCHANGED <<fileobj, probes, raised>>
  /\ UNCHANGED <<call, flags, entry>>

\* the statement "if seekable:" with its body
CheckSeek ==
  /\ pc = "seek"
  /\ IF flags.seekable
     THEN LET r == fileobj_seek_end(fileobj) IN
            /\ probes' = Append(probes, "seek")
            /\ fileobj' = r.obj
            /\ IF r.outcome = "raise"
               THEN /\ raised' = Some(ExceptMessage(fileobj, "seek", CannotSeek))
                    /\ pc' = "done"
               ELSE /\ raised' = raised
                    /\ pc' = "write"
     ELSE /\ pc' = "write"
          /\ UNCHANGED <<fileobj, probes, raised>>
  /\ UNCHANGED <<call, flags, entry>>

\* the statement "if writable:" with its body, and the return that follows
CheckWrite ==
  /\ pc = "write"
  /\ IF flags.writable
     THEN LET r == fileobj_write_empty(fileobj) IN
            /\ probes' = Append(probes, "write")
            /\ fileobj' = r.obj
            /\ raised' = IF r.outcome = "raise"
                         THEN Some(ExceptMessage(fileobj, "write", CannotWrite))
                         ELSE raised
     ELSE UNCHANGED <<fileobj, probes, raised>>
  /\ pc' = "done"
  /\ UNCHANGED <<call, flags, entry>>

-----------------------------------------------------------------------------
(* Calls of the pure functions, on inputs drawn from bounded sets.         *)

Headers(m) == {m[i][1] : i \in 1..Len(m)}
Labels(m) == {m[i][2] : i \in 1..Len(m)}

SuffixBytes == {0, 77, 255}
Suffixes == SeqsUpTo(SuffixBytes, MaxSuffixLen)

\* every prefix of every registered header, followed by every suffix
DataInputs ==
  UNION {{SubSeq(h, 1, k) \o s : k \in 0..Len(h), s \in Suffixes} :
           h \in Headers(AUDIO_FILE_HEADER_FORMAT_MAP)
                   \cup Headers(IMAGE_FILE_HEADER_MIME_MAP)}

Dots(k) == [i \in 1..k |-> "."]

BaseLabels ==
  Labels(AUDIO_FILE_HEADER_FORMAT_MAP) \cup Labels(IMAGE_FILE_HEADER_MIME_MAP)
    \cup {<<>>, <<"x">>, <<"F", "L", "A", "C">>, <<"f", "l", "a", "c", "x">>,
          <<"p", "n", "g">>, <<"f", ".", "l", "a", "c">>}

LabelInputs == {Dots(k) \o l : k \in 0..MaxDots, l \in BaseLabels}

ExtInputs ==
  {
    <<".", "n", "c", "m">>,
    <<".", "N", "C", "M">>,
    <<".", "n", "c", "m", "x">>,
    <<"n", "c", "m">>,
    <<".", "m", "p", "3">>,
    <<".", "q", "m", "c">>,
    <<".", "q", "m", "c", "0">>,
    <<".", "q", "m", "c", "1">>,
    <<".", "q", "m", "c", "2">>,
    <<".", "q", "m", "c", "3">>,
    <<".", "q", "m", "c", "4">>,
    <<".", "q", "m", "c", "5">>,
    <<".", "q", "m", "c", "6">>,
    <<".", "q", "m", "c", "8">>,
    <<".", "Q", "m", "c", "3">>,
    <<".", "q", "m", "c", "[", "0", "2", "3", "4", "6", "8", "]">>,
    <<".", "q", "m", "c", "f", "l", "a", "c">>,
    <<".", "q", "m", "c", "o", "g", "g">>,
    <<".", "t", "k", "m">>,
    <<".", "m", "f", "l", "a", "c">>,
    <<".", "m", "f", "l", "a", "c", "0">>,
    <<".", "m", "f", "l", "a", "c", "1">>,
    <<".", "m", "f", "l", "a", "c", "[", "0", "]">>,
    <<".", "m", "g", "g">>,
    <<".", "m", "g", "g", "0">>,
    <<".", "m", "g", "g", "1">>,
    <<".", "m", "g", "g", "l">>,
    <<".", "m", "g", "g", "2">>,
    <<".", "m", "g", "g", "L">>,
    <<".", "b", "k", "c", "m", "p", "3">>,
    <<".", "b", "k", "c", "m", "4", "a">>,
    <<".", "b", "k", "c", "f", "l", "a", "c">>,
    <<".", "b", "k", "c", "w", "a", "v">>,
    <<".", "b", "k", "c", "a", "p", "e">>,
    <<".", "b", "k", "c", "o", "g", "g">>,
    <<".", "b", "k", "c", "w", "m", "a">>,
    <<".", "b", "k", "c">>,
    <<".", "f", "l", "a", "c">>,
    <<>>
  }

StemChars == {"a", "."}
TailChars == {"x"}

ExampleNames ==
  {<<"s", "o", "n", "g", ".", "q", "m", "c", "3">>,
   <<"t", "r", "a", "c", "k", ".", "n", "c", "m">>,
   <<"a", ".", "m", "f", "l", "a", "c", "0">>,
   <<"p", "l", "a", "i", "n", ".", "m", "p", "3">>}

NameInputs ==
  ExampleNames \cup
  {stem \o ext \o tail :
     stem \in SeqsUpTo(StemChars, MaxStemLen),
     ext \in ExtInputs,
     tail \in SeqsUpTo(TailChars, MaxTailLen)}

XorBytes == {0, 90, 165, 255}
XorInputs == SeqsUpTo(XorBytes, MaxXorLen)

NoCall == [fn |-> "none", arg |-> <<>>, outcome |-> "return", ret |-> <<>>]

\* a call that was made and has not yet run
Pending(fn, arg) == [fn |-> fn, arg |-> arg, outcome |-> "pending", ret |-> <<>>]

Returned(fn, arg, v) == [fn |-> fn, arg |-> arg, outcome |-> "return", ret |-> v]

PendingCalls ==
  {Pending("get_audio_format", data) : data \in DataInputs}
    \cup {Pending("get_image_mime", data) : data \in DataInputs}
    \cup {Pending("get_possible_audio_header", fmt) : fmt \in LabelInputs}
    \cup {Pending("get_possible_image_header", fmt) : fmt \in LabelInputs}
    \cup {Pending("get_encryption_format", name) : name \in NameInputs}
    \cup {Pending("xor_bytestrings", <<term1, term2>>) :
            term1 \in XorInputs, term2 \in XorInputs}

IsPending(fn) == call.fn = fn /\ call.outcome = "pending"

Call_get_audio_format ==
  /\ IsPending("get_audio_format")
  /\ call' = Returned(call.fn, call.arg, get_audio_format(call.arg))
  /\ UNCHANGED <<fileobj, pc, flags, entry, probes, raised>>

Call_get_image_mime ==
  /\ IsPending("get_image_mime")
  /\ call' = Returned(call.fn, call.arg, get_image_mime(call.arg))
  /\ UNCHANGED <<fileobj, pc, flags, entry, probes, raised>>

Call_get_possible_audio_header ==
  /\ IsPending("get_possible_audio_header")
  /\ call' = Returned(call.fn, call.arg, get_possible_audio_header(call.arg))
  /\ UNCHANGED <<fileobj, pc, flags, entry, probes, raised>>

Call_get_possible_image_header ==
  /\ IsPending("get_possible_image_header")
  /\ call' = Returned(call.fn, call.arg, get_possible_image_header(call.arg))
  /\ UNCHANGED <<fileobj, pc, flags, entry, probes, raised>>

Call_get_encryption_format ==
  /\ IsPending("get_encryption_format")
  /\ call' = Returned(call.fn, call.arg, get_encryption_format(call.arg))
  /\ UNCHANGED <<fileobj, pc, flags, entry, probes, raised>>

Call_xor_bytestrings ==
  /\ IsPending("xor_bytestrings")
  /\ LET r == xor_bytestrings(call.arg[1], call.arg[2])
     IN  call' = [call EXCEPT !.outcome = r.outcome, !.ret = r.ret]
  /\ UNCHANGED <<fileobj, pc, flags, entry, probes, raised>>

-----------------------------------------------------------------------------
(* Specifications.                                                         *)

NoFlags == [readable |-> TRUE, seekable |-> TRUE, writable |-> FALSE]

InitValidate ==
  /\ call = NoCall
  /\ fileobj \in FileObjects
  /\ pc = "idle"
  /\ flags = NoFlags
  /\ entry = fileobj
  /\ probes = <<>>
  /\ raised = None

InitPure ==
  /\ call \in PendingCalls
  /\ fileobj = [read |-> "bytes", seek |-> "ok", write |-> "ok",
                closed |-> FALSE, content |-> <<>>, pos |-> 0]
  /\ pc = "idle"
  /\ flags = NoFlags
  /\ entry = fileobj
  /\ probes = <<>>
  /\ raised = None

NextValidate == Enter \/ CheckRead \/ CheckSeek \/ CheckWrite

NextPure ==
  \/ Call_get_audio_format
  \/ Call_get_image_mime
  \/ Call_get_possible_audio_header
  \/ Call_get_possible_image_header
  \/ Call_get_encryption_format
  \/ Call_xor_bytestrings

\* the validator running on a caller-owned file object
Spec == InitValidate /\ [][NextValidate]_vars

\* the pure functions applied to bounded inputs
SpecPure == InitPure /\ [][NextPure]_vars

-----------------------------------------------------------------------------
(* Properties of the sniffers and the reverse lookups, under SpecPure.     *)

HasReturned(fn) == call.fn = fn /\ call.outcome # "pending"

\* h is a leading part of data, byte by byte
LeadingBytes(h, data) ==
  /\ Len(h) <= Len(data)
  /\ \A k \in 1..Len(h) : data[k] = h[k]

\* every entry of registry m whose header leads the argument gives its label
HeaderDecides(fn, m) ==
  HasReturned(fn) =>
    \A i \in 1..Len(m) :
      LeadingBytes(m[i][1], call.arg) =>
        call.outcome = "return" /\ call.ret = Some(m[i][2])

\* C1: for every registered (header, label) pair of the audio and of the
\* image registry and every suffix, the sniffer of that registry applied to
\* header + suffix returns exactly that label.
C1_RegisteredHeaderGivesItsLabel ==
  /\ HeaderDecides("get_audio_format", AUDIO_FILE_HEADER_FORMAT_MAP)
  /\ HeaderDecides("get_image_mime", IMAGE_FILE_HEADER_MIME_MAP)

C1_Witness ==
  /\ HasReturned("get_audio_format")
  /\ call.arg = <<102, 76, 97, 67, 255, 0>>
  /\ call.ret = Some(<<"f", "l", "a", "c">>)

\* the sniffer of registry m returns None exactly when no header of m leads
\* the argument, and a label only when that label's header leads it
NoneIffNoHeader(fn, m) ==
  HasReturned(fn) =>
    /\ call.outcome = "return"
    /\ call.ret = None <=> \A i \in 1..Len(m) : ~LeadingBytes(m[i][1], call.arg)
    /\ call.ret # None =>
         \E i \in 1..Len(m) :
           call.ret[1] = m[i][2] /\ LeadingBytes(m[i][1], call.arg)

\* C6: a sniffer returns None, and raises nothing, for every buffer that no
\* registered header of its registry leads, the empty buffer and buffers
\* shorter than every header included; it returns a label only when that
\* label's header leads the buffer.
C6_NoneWhenNoHeaderLeads ==
  /\ NoneIffNoHeader("get_audio_format", AUDIO_FILE_HEADER_FORMAT_MAP)
  /\ NoneIffNoHeader("get_image_mime", IMAGE_FILE_HEADER_MIME_MAP)
  /\ (call.fn \in {"get_audio_format", "get_image_mime"}
        /\ call.outcome # "pending" /\ call.arg = <<>>) => call.ret = None

C6_Witness ==
  /\ HasReturned("get_image_mime")
  /\ call.arg = <<255>>
  /\ call.outcome = "return"
  /\ call.ret = None

AudioVocabulary ==
  {<<"f", "l", "a", "c">>, <<"m", "p", "3">>, <<"o", "g", "g">>,
   <<"m", "4", "a">>, <<"w", "m", "a">>, <<"w", "a", "v">>,
   <<"a", "a", "c">>, <<"d", "f", "f">>, <<"a", "p", "e">>}

ImageVocabulary ==
  {<<"i", "m", "a", "g", "e", "/", "p", "n", "g">>,
   <<"i", "m", "a", "g", "e", "/", "j", "p", "e", "g">>,
   <<"i", "m", "a", "g", "e", "/", "b", "m", "p">>}

\* the reverse lookup fn of registry m, on a label of the vocabulary with or
\* without one leading dot, returns the header registered for the label,
\* which the sniffer maps back to the label
RoundTrips(fn, m, vocabulary, sniff(_)) ==
  HasReturned(fn) =>
    /\ vocabulary = Labels(m)
    /\ \A l \in vocabulary :
         call.arg \in {l, <<".">> \o l} =>
           /\ call.outcome = "return"
           /\ call.ret # None
           /\ \E i \in 1..Len(m) : m[i] = <<call.ret[1], l>>
           /\ sniff(call.ret[1]) = Some(l)

\* C2: for every label of the audio and of the image vocabulary the reverse
\* lookup returns the label's original magic sequence, which the sniffer
\* identifies as that label, and the label preceded by a dot gives the same.
C2_VocabularyRoundTrips ==
  /\ RoundTrips("get_possible_audio_header", AUDIO_FILE_HEADER_FORMAT_MAP,
                AudioVocabulary, get_audio_format)
  /\ RoundTrips("get_possible_image_header", IMAGE_FILE_HEADER_MIME_MAP,
                ImageVocabulary, get_image_mime)

C2_Witness ==
  /\ HasReturned("get_possible_audio_header")
  /\ call.arg = <<".", "w", "m", "a">>
  /\ call.ret = Some(<<48, 38, 178, 117, 142, 102, 207, 17,
                       166, 217, 0, 170, 0, 98, 206, 108>>)

\* C7 as stated: for any label, registered or not, the reverse lookup of the
\* label equals the reverse lookup of the label preceded by a dot.
C7_Original_DotNeverMatters ==
  /\ HasReturned("get_possible_audio_header") =>
       call.ret = get_possible_audio_header(<<".">> \o call.arg)
  /\ HasReturned("get_possible_image_header") =>
       call.ret = get_possible_image_header(<<".">> \o call.arg)

\* the reverse lookup fn of registry m: one dot before a label changes the
\* result exactly when the label is itself a dot followed by a registered
\* label, where the lookup finds the header and the dotted lookup finds None
DotMatters(fn, m, lookup(_)) ==
  HasReturned(fn) =>
    LET dotted == {<<".">> \o l : l \in Labels(m)}
        plain  == IF call.arg # <<>> /\ call.arg[1] = "."
                  THEN Tail(call.arg) ELSE call.arg
    IN  /\ call.outcome = "return"
        /\ call.arg \notin dotted => call.ret = lookup(<<".">> \o call.arg)
        /\ call.arg \in dotted =>
             call.ret # None /\ lookup(<<".">> \o call.arg) = None
        /\ call.ret = None <=> plain \notin Labels(m)

\* C7, amended: exactly one leading dot is stripped before the reverse
\* lookup and None is returned for unknown labels, so the lookup of a label
\* equals the lookup of the label preceded by a dot for every label except
\* a registered label that already carries one leading dot: there the
\* lookup finds the header and the lookup with a second dot returns None.
C7_SingleDotStripped ==
  /\ DotMatters("get_possible_audio_header", AUDIO_FILE_HEADER_FORMAT_MAP,
                get_possible_audio_header)
  /\ DotMatters("get_possible_image_header", IMAGE_FILE_HEADER_MIME_MAP,
                get_possible_image_header)

C7_Witness ==
  /\ HasReturned("get_possible_image_header")
  /\ call.arg = <<".", "i", "m", "a", "g", "e", "/", "b", "m", "p">>
  /\ call.ret = Some(<<66, 77>>)
  /\ get_possible_image_header(<<".">> \o call.arg) = None

-----------------------------------------------------------------------------
(* Properties of the file-name classifier and of the XOR, under SpecPure.  *)

\* the name ends with the characters of suffix, compared one by one
EndsWith(name, suffix) ==
  /\ Len(suffix) <= Len(name)
  /\ \A k \in 1..Len(suffix) : name[Len(name) - Len(suffix) + k] = suffix[k]

\* the literal name endings the patterns of scheme qmc stand for
QmcSuffixes ==
  {
    <<".", "q", "m", "c", "0">>,
    <<".", "q", "m", "c", "2">>,
    <<".", "q", "m", "c", "3">>,
    <<".", "q", "m", "c", "4">>,
    <<".", "q", "m", "c", "6">>,
    <<".", "q", "m", "c", "8">>,
    <<".", "q", "m", "c", "f", "l", "a", "c">>,
    <<".", "q", "m", "c", "o", "g", "g">>,
    <<".", "t", "k", "m">>,
    <<".", "m", "f", "l", "a", "c">>,
    <<".", "m", "f", "l", "a", "c", "0">>,
    <<".", "m", "g", "g">>,
    <<".", "m", "g", "g", "0">>,
    <<".", "m", "g", "g", "1">>,
    <<".", "m", "g", "g", "l">>,
    <<".", "b", "k", "c", "m", "p", "3">>,
    <<".", "b", "k", "c", "m", "4", "a">>,
    <<".", "b", "k", "c", "f", "l", "a", "c">>,
    <<".", "b", "k", "c", "w", "a", "v">>,
    <<".", "b", "k", "c", "a", "p", "e">>,
    <<".", "b", "k", "c", "o", "g", "g">>,
    <<".", "b", "k", "c", "w", "m", "a">>
  }

\* C3: get_encryption_format returns the first scheme, ncm before qmc, one
\* of whose patterns matches the whole name, case-sensitively, and None when
\* no pattern matches: ncm for a name ending in ".ncm", qmc for a name
\* ending in an ending a qmc pattern stands for, None otherwise; so
\* "song.qmc3" gives qmc, "track.ncm" ncm, "a.mflac0" qmc, "plain.mp3" None.
C3_FirstMatchingScheme ==
  HasReturned("get_encryption_format") =>
    /\ call.outcome = "return"
    /\ call.ret =
         IF EndsWith(call.arg, <<".", "n", "c", "m">>)
         THEN Some(<<"n", "c", "m">>)
         ELSE IF \E e \in QmcSuffixes : EndsWith(call.arg, e)
         THEN Some(<<"q", "m", "c">>)
         ELSE None
    /\ call.arg = <<"s", "o", "n", "g", ".", "q", "m", "c", "3">>
         => call.ret = Some(<<"q", "m", "c">>)
    /\ call.arg = <<"t", "r", "a", "c", "k", ".", "n", "c", "m">>
         => call.ret = Some(<<"n", "c", "m">>)
    /\ call.arg = <<"a", ".", "m", "f", "l", "a", "c", "0">>
         => call.ret = Some(<<"q", "m", "c">>)
    /\ call.arg = <<"p", "l", "a", "i", "n", ".", "m", "p", "3">>
         => call.ret = None

C3_Witness ==
  /\ HasReturned("get_encryption_format")
  /\ call.arg = <<"a", ".", "m", "f", "l", "a", "c", "0">>
  /\ call.ret = Some(<<"q", "m", "c">>)

\* bit k of byte x
Bit(x, k) == (x \div (2 ^ k)) % 2

\* what a finished call of xor_bytestrings on c.arg must have produced
XorResult(c) ==
  LET a == c.arg[1]
      b == c.arg[2]
  IN  IF Len(a) # Len(b)
      THEN /\ c.outcome = "raise"
           /\ c.ret = <<"ValueError", "Only byte strings of equal length can be xored">>
      ELSE /\ c.outcome = "return"
           /\ Len(c.ret) = Len(a)
           /\ \A i \in 1..Len(a) :
                /\ c.ret[i] \in 0..255
                /\ \A k \in 0..7 :
                     Bit(c.ret[i], k) = (Bit(a[i], k) + Bit(b[i], k)) % 2
           /\ a = b => \A i \in 1..Len(a) : c.ret[i] = 0

\* C5: xor_bytestrings raises the length-mismatch error whenever the two
\* lengths differ, and otherwise returns a buffer of the same length whose
\* i-th byte is a[i] XOR b[i]; it leaves both arguments as they were, and
\* xor(a, a) is all zero bytes.
C5_XorByteWise ==
  [][IsPending("xor_bytestrings") => (call'.arg = call.arg /\ XorResult(call'))]_vars

C5_Witness ==
  /\ HasReturned("xor_bytestrings")
  /\ call.arg = << <<90, 255>>, <<165, 255>> >>
  /\ call.outcome = "return"
  /\ call.ret = <<255, 0>>

-----------------------------------------------------------------------------
(* Properties of raise_while_not_fileobj, under Spec.                      *)

\* the probes the flags enable, in the order read, seek, write
EnabledProbes(fl) ==
  (IF fl.readable THEN <<"read">> ELSE <<>>)
    \o (IF fl.seekable THEN <<"seek">> ELSE <<>>)
    \o (IF fl.writable THEN <<"write">> ELSE <<>>)

\* the check of probe p fails on file object f
ProbeFails(f, p) ==
  \/ f[p] \in {"absent", "raises"}
  \/ f.closed
  \/ p = "read" /\ f.read = "str"

\* positions, among the enabled probes, of those whose check fails
Failing(f, fl) ==
  {i \in 1..Len(EnabledProbes(fl)) : ProbeFails(f, EnabledProbes(fl)[i])}

FirstFailing(f, fl) == EnabledProbes(fl)[Least(Failing(f, fl))]

\* the capability an error message names: the message "not a valid file
\* object" is raised by all three checks and names none
CapabilityNamed(msg) ==
  IF msg \in {CannotRead, NotBinary} THEN "read"
  ELSE IF msg = CannotSeek THEN "seek"
  ELSE IF msg = CannotWrite THEN "write"
  ELSE "none"

\* C4: a finished call succeeded exactly when no enabled check fails, and
\* otherwise raised an error that names the capability (read, seek or
\* write) of the first enabled check that fails.  The code breaks it where
\* the file object lacks the method of that check: the error raised there
\* is "not a valid file object", the same for all three checks.
C4_ErrorNamesCapability ==
  pc = "done" =>
    /\ raised = None <=> Failing(entry, flags) = {}
    /\ Failing(entry, flags) # {} =>
         raised # None /\ CapabilityNamed(raised[1]) = FirstFailing(entry, flags)

\* the probes a call must invoke: the enabled ones up to and including the
\* first whose check fails
ExpectedProbes(f, fl) ==
  IF Failing(f, fl) = {} THEN EnabledProbes(fl)
  ELSE SubSeq(EnabledProbes(fl), 1, Least(Failing(f, fl)))

IsPrefix(s, u) == Len(s) <= Len(u) /\ \A k \in 1..Len(s) : s[k] = u[k]

\* C8: in every run the probes invoked on the file object are exactly the
\* enabled ones, in the order read, seek, write, up to and including the
\* first that fails: a disabled probe is never invoked, no probe is invoked
\* after a failed one, and with all flags off nothing is invoked and the
\* call succeeds.
C8_ProbesInOrderUntilFirstFailure ==
  /\ pc # "idle" => IsPrefix(probes, ExpectedProbes(entry, flags))
  /\ pc = "seek" => \A k \in 1..Len(probes) : probes[k] = "read"
  /\ pc = "write" => \A k \in 1..Len(probes) : probes[k] \in {"read", "seek"}
  /\ pc = "done" => probes = ExpectedProbes(entry, flags)
  /\ (pc = "done" /\ EnabledProbes(flags) = <<>>) =>
       probes = <<>> /\ raised = None
  /\ (pc = "done" /\ flags.seekable /\ "seek" \in {probes[k] : k \in 1..Len(probes)}
        /\ ProbeFails(entry, "seek")) =>
       "write" \notin {probes[k] : k \in 1..Len(probes)}

C8_Witness ==
  /\ pc = "done"
  /\ flags = [readable |-> TRUE, seekable |-> TRUE, writable |-> TRUE]
  /\ entry.seek = "absent"
  /\ probes = <<"read", "seek">>
  /\ raised # None

\* the message of a check whose method exists and whose call raises
FaultyMessage(p) ==
  IF p = "read" THEN CannotRead
  ELSE IF p = "seek" THEN CannotSeek
  ELSE CannotWrite

\* C9: when an enabled probe fails, the error is the Missing one, "not a
\* valid file object", exactly when the file object lacks the method, and
\* the Faulty one, "cannot read from / seek in / write to file object",
\* when it has the method and the call raises; a read(0) that returns str
\* makes the call fail with the read check's binary-mode error.
C9_MissingVersusFaulty ==
  (pc = "done" /\ raised # None) =>
    LET p == probes[Len(probes)]
    IN  /\ Len(probes) > 0
        /\ raised = Some(NotValid) <=> ~hasattr(entry, p)
        /\ (hasattr(entry, p) /\ MethodFails(entry, p)) =>
             raised = Some(FaultyMessage(p))
        /\ (hasattr(entry, p) /\ ~MethodFails(entry, p)) =>
             /\ p = "read"
             /\ entry.read = "str"
             /\ raised = Some(NotBinary)
             /\ CapabilityNamed(raised[1]) = "read"

C9_Witness ==
  /\ pc = "done"
  /\ entry.read = "str"
  /\ ~entry.closed
  /\ flags.readable
  /\ probes = <<"read">>
  /\ raised = Some(NotBinary)

\* the seek probe was invoked and did not raise
SeekSucceeded ==
  /\ \E k \in 1..Len(probes) : probes[k] = "seek"
  /\ ~(raised # None /\ probes[Len(probes)] = "seek")

\* C10: the call never closes the file object and never changes its
\* content; once the seek check has run and succeeded the cursor is at the
\* end of the stream whatever it was before, and when the seek check is
\* disabled or not reached the cursor is where it was on entry.
C10_OnlyCursorMoves ==
  /\ fileobj.closed = entry.closed
  /\ fileobj.content = entry.content
  /\ [p \in {"read", "seek", "write"} |-> fileobj[p]]
       = [p \in {"read", "seek", "write"} |-> entry[p]]
  /\ (pc \in {"write", "done"} /\ SeekSucceeded) =>
       fileobj.pos = Len(fileobj.content)
  /\ (pc = "done" /\ ~flags.seekable) => fileobj.pos = entry.pos
  /\ (pc = "done" /\ \A k \in 1..Len(probes) : probes[k] # "seek") =>
       fileobj.pos = entry.pos

C10_Witness ==
  /\ pc = "done"
  /\ raised = None
  /\ flags = [readable |-> TRUE, seekable |-> TRUE, writable |-> TRUE]
  /\ entry.pos = 0
  /\ Len(entry.content) = 2
  /\ fileobj.pos = 2

=============================================================================
